---- MODULE Spec2Model ----
(***************************************************************************)
(* Code Time session / onboarding glue: DataController (login status,      *)
(* anonymous user creation, preference sync, heartbeat, offline batch) and *)
(* OnboardManager (first-run onboarding retry chain).                      *)
(*                                                                         *)
(* Every async function is a call held in a slot of `call`; it advances    *)
(* one step per awaited boundary.  The step that resumes after an await    *)
(* draws the awaited HTTP response from the set of responses the endpoint  *)
(* can give.                                                               *)
(***************************************************************************)
EXTENDS Integers, Sequences, FiniteSets, TLC

\* ------------------------------------------------------------------ bounds

\* number of distinct session tokens the server may issue
MaxTok == 2
\* number of call slots (async calls that can be in flight at once)
NumProcs == 2
\* longest offline batch file content, in symbols
MaxLen == 6
\* cap on the onboarding retry counter and on the per-chain logs
MaxRetry == 2

\* default of refetchUserStatusLazily(tryCountUntilFoundUser = 3)
DefaultTries == 3

NoTok == 0
Tokens == 1..MaxTok
TokOrNone == 0..MaxTok
Procs == 1..NumProcs
\* the slot used by the specifications of non-interleaved calls
Main == CHOOSE p \in Procs : \A q \in Procs : p <= q

\* tri-state setting: true, false or unset (null / undefined)
Tri == {"true", "false", "unset"}
PrefsSet == [showMusic : Tri, showGit : Tri, showRank : Tri]
ConfigSet == [showMusicMetrics : Tri, showGitMetrics : Tri, showWeeklyRanking : Tri]
NoPrefs == [showMusic |-> "unset", showGit |-> "unset", showRank |-> "unset"]
DefaultConfig == [showMusicMetrics |-> "true", showGitMetrics |-> "true",
                  showWeeklyRanking |-> "true"]

\* the offline batch file: NoFile or a sequence of symbols
NoFile == <<"ENOENT">>

VARIABLES
    \* DataController module state
    loggedInCacheState, initializedPrefs, cachedJwt,
    \* OnboardManager module state
    secondary_window_activate_counter, retry_counter,
    \* local key-value storage: getItem("jwt"), getItem("name")
    jwtItem, nameItem,
    \* editor configuration, offline batch file, session file, window focus
    config, dataStoreFile, sessionFile, focused,
    \* whether the HTTP transport may reject instead of returning a response
    transportRejects,
    \* the async calls in flight
    call,
    \* pending timers
    refetchTimer, onboardTimer,
    \* history: what the retry chains and the onboarding POSTs have done
    chain, onboardOk,
    \* history: the records the server accepted, and how many starts of
    \* initializePreferences are still owed (one for the first login and one
    \* for every newly issued token, less the starts made)
    hist

dcVars == <<loggedInCacheState, initializedPrefs, cachedJwt>>
omVars == <<secondary_window_activate_counter, retry_counter>>
storeVars == <<jwtItem, nameItem>>
envVars == <<config, dataStoreFile, sessionFile, focused, transportRejects>>
timerVars == <<refetchTimer, onboardTimer>>
vars == <<loggedInCacheState, initializedPrefs, cachedJwt,
          secondary_window_activate_counter, retry_counter, jwtItem, nameItem,
          config, dataStoreFile, sessionFile, focused, transportRejects, call,
          refetchTimer, onboardTimer, chain, onboardOk, hist>>

\* ---------------------------------------------------------------- responses

\* classification of what the transport gives back
Classes == {"ok", "notok"} \cup (IF transportRejects THEN {"throw"} ELSE {})

NoResp == [cls |-> "none", data |-> FALSE, jwt |-> NoTok, state |-> "MISSING",
           hasPrefs |-> FALSE, prefs |-> NoPrefs]

Resp(c, d, j, s, hp, pr) ==
    [cls |-> c, data |-> d, jwt |-> j, state |-> s, hasPrefs |-> hp, prefs |-> pr]

\* a rejected request carries nothing
Thrown == IF transportRejects
          THEN {Resp("throw", FALSE, NoTok, "MISSING", FALSE, NoPrefs)} ELSE {}

\* GET /ping, POST /data/music, POST /data/heartbeat, PUT preferences
PlainResps ==
    {Resp(c, FALSE, NoTok, "MISSING", FALSE, NoPrefs) : c \in {"ok", "notok"}}
        \cup Thrown

\* POST /data/batch: ok, not ok, or not ok and "user deactivated"
BatchResps ==
    {Resp(c, FALSE, NoTok, "MISSING", FALSE, NoPrefs) :
        c \in {"ok", "notok", "deactivated"}} \cup Thrown

\* GET /data/apptoken and POST /data/onboard: {jwt} or nothing in the body
TokenResps ==
    {Resp(c, TRUE, j, "MISSING", FALSE, NoPrefs) :
        c \in {"ok", "notok"}, j \in TokOrNone} \cup Thrown

\* GET /users/plugin/state: {state, email, jwt}; the state field may be missing
PluginStates == {"OK", "ANONYMOUS", "NOT_FOUND", "UNKNOWN", "MISSING"}
StateResps ==
    {Resp(c, TRUE, j, s, FALSE, NoPrefs) :
        c \in {"ok", "notok"}, j \in TokOrNone, s \in PluginStates}
        \cup {Resp(c, FALSE, NoTok, "MISSING", FALSE, NoPrefs) : c \in {"ok", "notok"}}
        \cup Thrown

\* GET /users/me and GET /users/:id: {data: {id, preferences}}
UserResps ==
    {Resp(c, TRUE, NoTok, "MISSING", TRUE, pr) : c \in {"ok", "notok"}, pr \in PrefsSet}
        \cup {Resp(c, d, NoTok, "MISSING", FALSE, NoPrefs) :
                c \in {"ok", "notok"}, d \in BOOLEAN}
        \cup Thrown

\* HttpClient.isResponseOk / isUserDeactivated
isResponseOk(r) == r.cls = "ok"
isUserDeactivated(r) == r.cls = "deactivated"

\* what a call remembers of a response: all but the preferences it carried
Seen(r) == [cls |-> r.cls, data |-> r.data, jwt |-> r.jwt, state |-> r.state]

\* what a timer chain (refetch or onboarding) has done so far
NoChain == [active |-> FALSE, tries |-> 0, checks |-> 0, loggedIn |-> FALSE,
            callbacks |-> <<>>, prompts |-> 0, defers |-> 0, retries |-> 0]

\* nothing accepted yet; the first login's start of initializePreferences is owed
NoHist == [accepted |-> {}, prefsOwed |-> 1]

\* the count after one more start of initializePreferences; below zero it
\* stays at -1 (a start that nothing owed)
AfterPrefsStart(owed) == IF owed > 0 THEN owed - 1 ELSE -1

\* the count after the server issued a token: one more when it is new
AfterIssue(owed, t, stored) ==
    IF t # NoTok /\ t # stored /\ owed >= 0 THEN owed + 1 ELSE owed

\* ------------------------------------------------------------------- calls

IdleCall ==
    [op |-> "none", pc |-> "idle",
     \* locals
     jwt |-> NoTok, serverIsOnline |-> FALSE, appJwt |-> NoTok, tok |-> NoTok,
     retried |-> FALSE, loggedOn |-> FALSE, state |-> "UNKNOWN",
     tries |-> -1, cfg |-> DefaultConfig, prefs |-> NoPrefs, payloads |-> <<>>,
     \* outcome
     ret |-> "none", retTok |-> NoTok, raised |-> FALSE,
     \* what the call saw and did
     resp |-> Seen(NoResp), sawOk |-> FALSE, sawNotOk |-> FALSE,
     startJwt |-> NoTok, startCached |-> NoTok, startState |-> FALSE,
     startPrefsInit |-> FALSE, startFile |-> NoFile, startConfig |-> DefaultConfig,
     posts |-> 0, created |-> FALSE, hb |-> "none", kpmTimer |-> FALSE,
     prefsInit |-> FALSE, puts |-> <<>>, remote |-> NoPrefs, wrote |-> FALSE,
     batch |-> "none", probe |-> "none", deleted |-> FALSE,
     checked |-> FALSE, hadSession |-> FALSE, hadJwt |-> FALSE,
     cb |-> "none", prompted |-> FALSE, fetched |-> FALSE]

\* a fresh call of operation o, remembering the state it started in
NewCall(o) ==
    [IdleCall EXCEPT !.op = o, !.startJwt = jwtItem, !.startCached = cachedJwt,
                     !.startState = loggedInCacheState,
                     !.startPrefsInit = initializedPrefs,
                     !.startFile = dataStoreFile, !.startConfig = config]

\* the call record after response r arrived
Recv(c, r) ==
    [c EXCEPT !.resp = Seen(r), !.sawOk = @ \/ r.cls = "ok",
              !.sawNotOk = @ \/ r.cls \in {"notok", "deactivated"}]

\* the call ends normally with return value kind k (and token t)
Return(c, k, t) == [c EXCEPT !.pc = "done", !.ret = k, !.retTok = t]

\* a rejected await that nothing catches ends the call with the error
Raise(c) == [c EXCEPT !.pc = "done", !.raised = TRUE]

Idle(p) == call[p].pc = "idle"
At(p, o, l) == call[p].op = o /\ call[p].pc = l
Set(p, c) == call' = [call EXCEPT ![p] = c]

\* ------------------------------------------------------- serverIsAvailable

\* serverIsAvailable: the value it resolves to for the /ping response r
serverIsAvailable(r) == IF r.cls = "throw" THEN FALSE ELSE isResponseOk(r)

StartServerIsAvailable(p) ==
    /\ Idle(p)
    /\ Set(p, [NewCall("serverIsAvailable") EXCEPT !.pc = "ping"])
    /\ UNCHANGED <<dcVars, omVars, storeVars, envVars, timerVars, chain, onboardOk, hist>>

ServerIsAvailableResp(p) ==
    /\ At(p, "serverIsAvailable", "ping")
    /\ \E r \in PlainResps :
        Set(p, Return(Recv(call[p], r),
                      IF serverIsAvailable(r) THEN "true" ELSE "false", NoTok))
    /\ UNCHANGED <<dcVars, omVars, storeVars, envVars, timerVars, chain, onboardOk, hist>>

\* ---------------------------------------------------------------- getAppJwt

\* mutant: the response's classification is not looked at
getAppJwtUnchecked(serverIsOnline, r) ==
    IF serverIsOnline /\ r.cls # "throw" THEN r.jwt ELSE NoTok

\* getAppJwt: the app token it returns for the /data/apptoken response r
getAppJwt(serverIsOnline, r) ==
    IF serverIsOnline /\ isResponseOk(r) THEN r.jwt ELSE NoTok

StartGetAppJwt(p) ==
    /\ Idle(p)
    /\ \E online \in BOOLEAN :
        LET c == [NewCall("getAppJwt") EXCEPT !.serverIsOnline = online] IN
        Set(p, IF online THEN [c EXCEPT !.pc = "apptoken"]
                         ELSE Return(c, "null", NoTok))
    /\ UNCHANGED <<dcVars, omVars, storeVars, envVars, timerVars, chain, onboardOk, hist>>

GetAppJwtResp(p) ==
    /\ At(p, "getAppJwt", "apptoken")
    /\ \E r \in TokenResps :
        LET c == Recv(call[p], r)
            t == getAppJwt(c.serverIsOnline, r) IN
        Set(p, IF r.cls = "throw" THEN Raise(c)
               ELSE IF t = NoTok THEN Return(c, "null", NoTok)
               ELSE Return(c, "jwt", t))
    /\ UNCHANGED <<dcVars, omVars, storeVars, envVars, timerVars, chain, onboardOk, hist>>

\* ------------------------------------------------------------------ getUser

\* getUser: whether the /users/me response r yields a user object
getUser(r) == isResponseOk(r) /\ r.data

StartGetUser(p) ==
    /\ Idle(p)
    /\ \E online \in BOOLEAN, jwt \in TokOrNone :
        LET c == [NewCall("getUser") EXCEPT !.serverIsOnline = online, !.jwt = jwt] IN
        Set(p, IF jwt # NoTok /\ online THEN [c EXCEPT !.pc = "me"]
                                      ELSE Return(c, "null", NoTok))
    /\ UNCHANGED <<dcVars, omVars, storeVars, envVars, timerVars, chain, onboardOk, hist>>

GetUserResp(p) ==
    /\ At(p, "getUser", "me")
    /\ \E r \in UserResps :
        LET c == Recv(call[p], r) IN
        Set(p, IF r.cls = "throw" THEN Raise(c)
               ELSE IF getUser(r) THEN Return(c, "user", NoTok)
               ELSE Return(c, "null", NoTok))
    /\ UNCHANGED <<dcVars, omVars, storeVars, envVars, timerVars, chain, onboardOk, hist>>

\* ------------------------------------------------------------ sendMusicData

\* sendMusicData: the status it resolves to for the /data/music response r
sendMusicData(r) ==
    IF r.cls = "throw" THEN "fail" ELSE IF ~isResponseOk(r) THEN "fail" ELSE "ok"

StartSendMusicData(p) ==
    /\ Idle(p)
    /\ Set(p, [NewCall("sendMusicData") EXCEPT !.pc = "music", !.jwt = jwtItem])
    /\ UNCHANGED <<dcVars, omVars, storeVars, envVars, timerVars, chain, onboardOk, hist>>

SendMusicDataResp(p) ==
    /\ At(p, "sendMusicData", "music")
    /\ \E r \in PlainResps :
        Set(p, Return(Recv(call[p], r), sendMusicData(r), NoTok))
    /\ UNCHANGED <<dcVars, omVars, storeVars, envVars, timerVars, chain, onboardOk, hist>>

\* ------------------------------------------------------------ sendHeartbeat

StartSendHeartbeat(p) ==
    /\ Idle(p)
    /\ Set(p, [NewCall("sendHeartbeat") EXCEPT !.pc = "ping"])
    /\ UNCHANGED <<dcVars, omVars, storeVars, envVars, timerVars, chain, onboardOk, hist>>

\* after the probe: read the token and, if online with a token, POST the
\* heartbeat; the function resolves without waiting for the POST
SendHeartbeatPingResp(p) ==
    /\ At(p, "sendHeartbeat", "ping")
    /\ \E r \in PlainResps :
        LET c == [Recv(call[p], r) EXCEPT !.serverIsOnline = serverIsAvailable(r),
                                          !.jwt = jwtItem] IN
        Set(p, IF c.serverIsOnline /\ c.jwt # NoTok
               THEN [c EXCEPT !.pc = "heartbeat", !.ret = "undefined"]
               ELSE Return(c, "undefined", NoTok))
    /\ UNCHANGED <<dcVars, omVars, storeVars, envVars, timerVars, chain, onboardOk, hist>>

\* the detached POST's response is only logged; a rejection has no handler
SendHeartbeatPostResp(p) ==
    /\ At(p, "sendHeartbeat", "heartbeat")
    /\ \E r \in PlainResps :
        LET c == Recv(call[p], r) IN
        Set(p, IF r.cls = "throw" THEN Raise(c) ELSE Return(c, "undefined", NoTok))
    /\ UNCHANGED <<dcVars, omVars, storeVars, envVars, timerVars, chain, onboardOk, hist>>

\* ------------------------------------------- DataController.createAnonymousUser

\* isLoggedOn is entered: GET /users/plugin/state with token jwt
EnterIsLoggedOn(c, jwt, again) ==
    [c EXCEPT !.pc = "state", !.tok = jwt, !.retried = again]

\* createAnonymousUser has returned to its caller.  A direct call is over;
\* getUserStatus goes on: it re-reads the stored token (now stored) and
\* enters isLoggedOn with it
AfterCreateAnonymousUser(c, stored) ==
    IF c.op = "createAnonymousUser" THEN Return(c, "undefined", NoTok)
    ELSE EnterIsLoggedOn([c EXCEPT !.jwt = stored], stored, FALSE)

\* createAnonymousUser is entered: getAppJwt issues its request when online
EnterCreateAnonymousUser(c, stored) ==
    IF c.serverIsOnline THEN [c EXCEPT !.pc = "apptoken"]
    ELSE AfterCreateAnonymousUser(c, stored)

\* mutant: the guard looks at the in-memory cache only
NoJwtGuardCacheOnly(jwt, cached) == cached = NoTok

\* mutant: "or" in place of "and"
NoJwtGuardEither(jwt, cached) == jwt = NoTok \/ cached = NoTok

\* the guard before the onboarding POST ("check one more time")
NoJwtGuard(jwt, cached) == jwt = NoTok /\ cached = NoTok

StartCreateAnonymousUser(p) ==
    /\ Idle(p)
    /\ \E online \in BOOLEAN :
        Set(p, EnterCreateAnonymousUser(
                 [NewCall("createAnonymousUser") EXCEPT !.serverIsOnline = online],
                 jwtItem))
    /\ UNCHANGED <<dcVars, omVars, storeVars, envVars, timerVars, chain, onboardOk, hist>>

\* the app token arrived: guard, then either POST /data/onboard (the awaits
\* of getOsUsername and getHostname before it touch no state) or copy the
\* cached token into storage
CreateAnonymousUserAppJwt(p) ==
    /\ call[p].op \in {"createAnonymousUser", "getUserStatus"}
    /\ call[p].pc = "apptoken"
    /\ \E r \in TokenResps :
        LET c0 == Recv(call[p], r)
            appJwt == getAppJwt(c0.serverIsOnline, r)
            c == [c0 EXCEPT !.appJwt = appJwt]
            jwt == jwtItem IN
        IF r.cls = "throw" THEN
            /\ Set(p, Raise(c0))
            /\ UNCHANGED jwtItem
        ELSE IF appJwt # NoTok /\ c.serverIsOnline THEN
            IF NoJwtGuard(jwt, cachedJwt) THEN
                /\ Set(p, [c EXCEPT !.pc = "onboard", !.posts = @ + 1])
                /\ UNCHANGED jwtItem
            ELSE
                /\ jwtItem' = IF jwt = NoTok /\ cachedJwt # NoTok
                              THEN cachedJwt ELSE jwtItem
                /\ Set(p, AfterCreateAnonymousUser(c, jwtItem'))
        ELSE
            /\ Set(p, AfterCreateAnonymousUser(c, jwtItem))
            /\ UNCHANGED jwtItem
    /\ UNCHANGED <<dcVars, omVars, nameItem, envVars, timerVars, chain, onboardOk, hist>>

\* the onboarding response: a token in an ok response is stored and cached
OnboardAccepted(r) == isResponseOk(r) /\ r.data /\ r.jwt # NoTok

CreateAnonymousUserOnboard(p) ==
    /\ call[p].op \in {"createAnonymousUser", "getUserStatus"}
    /\ call[p].pc = "onboard"
    /\ \E r \in TokenResps :
        LET c == Recv(call[p], r) IN
        IF r.cls = "throw" THEN
            /\ Set(p, Raise(c))
            /\ UNCHANGED <<jwtItem, cachedJwt, onboardOk, hist>>
        ELSE IF OnboardAccepted(r) THEN
            /\ jwtItem' = r.jwt
            /\ cachedJwt' = r.jwt
            /\ onboardOk' = onboardOk + 1
            /\ hist' = [hist EXCEPT !.prefsOwed = AfterIssue(@, r.jwt, jwtItem)]
            /\ Set(p, AfterCreateAnonymousUser([c EXCEPT !.created = TRUE], r.jwt))
        ELSE
            /\ Set(p, AfterCreateAnonymousUser(c, jwtItem))
            /\ UNCHANGED <<jwtItem, cachedJwt, onboardOk, hist>>
    /\ UNCHANGED <<loggedInCacheState, initializedPrefs, omVars, nameItem, envVars,
                   timerVars, chain>>

\* ------------------------------------------------ isLoggedOn / getUserStatus

\* the state isLoggedOn reads from an ok response: a missing field is UNKNOWN
StateOf(r) == IF r.state = "MISSING" THEN "UNKNOWN" ELSE r.state

\* isLoggedOn: whether the response r reports the OK state
LoggedOnBy(r) == isResponseOk(r) /\ r.data /\ StateOf(r) = "OK"

\* mutant: any token in the response is persisted, changed or not
PersistsJwtAlways(r, jwt) == r.jwt # NoTok

\* isLoggedOn: whether it persists the response's token (passed token jwt)
PersistsJwt(r, jwt) == r.jwt # NoTok /\ r.jwt # jwt

StartGetUserStatus(p) ==
    /\ Idle(p)
    /\ Set(p, [NewCall("getUserStatus") EXCEPT !.pc = "ping", !.jwt = jwtItem])
    /\ UNCHANGED <<dcVars, omVars, storeVars, envVars, timerVars, chain, onboardOk, hist>>

\* the rest of getUserStatus once loggedIn is known (source lines 216-246):
\* start initializePreferences once, clear the name, publish the context,
\* send the state-change heartbeat and arm the refresh timer, remember the
\* state, return {loggedIn}
\* mutant: only the change to logged in is reported
StateChangedToTrue(online, cacheState, loggedIn) == online /\ ~cacheState /\ loggedIn

\* mutant: the heartbeat is sent whenever the server is online
StateChangedAlways(online, cacheState, loggedIn) == online

StateChanged(online, cacheState, loggedIn) == online /\ cacheState # loggedIn

GetUserStatusTail(p, c, loggedIn, name) ==
    LET online == c.serverIsOnline
        startPrefs == online /\ loggedIn /\ ~initializedPrefs
        changed == StateChanged(online, loggedInCacheState, loggedIn)
        c1 == [c EXCEPT !.prefsInit = startPrefs,
                        !.hb = IF changed
                               THEN (IF loggedIn THEN "true" ELSE "false")
                               ELSE "none",
                        !.kpmTimer = changed] IN
    /\ initializedPrefs' = IF startPrefs THEN TRUE ELSE initializedPrefs
    /\ nameItem' = IF ~loggedIn THEN "null" ELSE name
    /\ loggedInCacheState' = loggedIn
    /\ hist' = [hist EXCEPT !.prefsOwed = IF startPrefs THEN AfterPrefsStart(@) ELSE @]
    /\ Set(p, Return(c1, IF loggedIn THEN "true" ELSE "false", NoTok))

\* the probe answered: if online without any token create the anonymous
\* user, then (online) check the login state; offline goes to the tail
GetUserStatusPing(p) ==
    /\ At(p, "getUserStatus", "ping")
    /\ \E r \in PlainResps :
        LET c == [Recv(call[p], r) EXCEPT !.serverIsOnline = serverIsAvailable(r)] IN
        IF c.serverIsOnline THEN
            /\ Set(p, IF NoJwtGuard(c.jwt, cachedJwt)
                      THEN EnterCreateAnonymousUser(c, jwtItem)
                      ELSE EnterIsLoggedOn([c EXCEPT !.jwt = jwtItem], jwtItem, FALSE))
            /\ UNCHANGED <<dcVars, nameItem, hist>>
        ELSE
            /\ GetUserStatusTail(p, c, FALSE, nameItem)
            /\ UNCHANGED cachedJwt
    /\ UNCHANGED <<omVars, jwtItem, envVars, timerVars, chain, onboardOk>>

\* isLoggedOn's response (source lines 161-184); it returns to getUserStatus
IsLoggedOnResp(p) ==
    /\ At(p, "getUserStatus", "state")
    /\ \E r \in StateResps :
        LET c == Recv(call[p], r) IN
        IF r.cls = "throw" THEN
            /\ Set(p, Raise(c))
            /\ UNCHANGED <<nameItem, cachedJwt, jwtItem, initializedPrefs, hist>>
        ELSE IF isResponseOk(r) /\ r.data THEN
            IF LoggedOnBy(r) THEN
                /\ nameItem' = "email"
                /\ cachedJwt' = r.jwt
                /\ hist' = [hist EXCEPT !.prefsOwed = AfterIssue(@, r.jwt, jwtItem)]
                /\ jwtItem' = IF PersistsJwt(r, c.tok) THEN r.jwt ELSE jwtItem
                /\ initializedPrefs' =
                       IF PersistsJwt(r, c.tok) THEN FALSE ELSE initializedPrefs
                /\ Set(p, [c EXCEPT !.pc = "stateReturned", !.loggedOn = TRUE,
                                    !.state = "OK"])
            ELSE
                /\ Set(p, [c EXCEPT !.pc = "stateReturned", !.loggedOn = FALSE,
                                    !.state = StateOf(r)])
                /\ UNCHANGED <<nameItem, cachedJwt, jwtItem, initializedPrefs, hist>>
        ELSE
            /\ Set(p, [c EXCEPT !.pc = "stateReturned", !.loggedOn = FALSE,
                                !.state = "UNKNOWN"])
            /\ UNCHANGED <<nameItem, cachedJwt, jwtItem, initializedPrefs, hist>>
    /\ UNCHANGED <<loggedInCacheState, omVars, envVars, timerVars, chain, onboardOk>>

\* getUserStatus resumes after isLoggedOn: one retry with the cached token
\* when not logged on and the cached token differs, otherwise the tail
RetryWithCached(c, cached) == ~c.loggedOn /\ cached # NoTok /\ c.jwt # cached

GetUserStatusLoggedOn(p) ==
    /\ At(p, "getUserStatus", "stateReturned")
    /\ LET c == call[p] IN
        IF ~c.retried /\ RetryWithCached(c, cachedJwt) THEN
            /\ Set(p, EnterIsLoggedOn(c, cachedJwt, TRUE))
            /\ UNCHANGED <<loggedInCacheState, initializedPrefs, nameItem, hist>>
        ELSE
            GetUserStatusTail(p, c, c.loggedOn, nameItem)
    /\ UNCHANGED <<cachedJwt, omVars, jwtItem, envVars, timerVars, chain, onboardOk>>

\* ------------------------------------------------------------ OnboardManager

\* Util.jwtExists: a token is in local storage
jwtExists == jwtItem # NoTok

\* Util.softwareSessionFileExists
softwareSessionFileExists == sessionFile

\* mutant: the guard is missing
NoStoredJwtUnguarded(jwt) == TRUE

\* OnboardManager.createAnonymousUser's guard before the onboarding POST
NoStoredJwt(jwt) == jwt = NoTok

\* the failing attempt of onboardPlugin: prompt on the first one, retry in
\* ten minutes (source lines 41-48 and 53-60)
\* mutant: the prompt is shown on every failing attempt
ShowsPromptAlways(counter) == TRUE

ShowsPrompt(counter) == counter = 0

OnboardRetry(p, c) ==
    /\ chain' = [chain EXCEPT
                   !.prompts = IF ShowsPrompt(retry_counter) THEN @ + 1 ELSE @]
    /\ onboardTimer' = "retry"
    /\ Set(p, Return([c EXCEPT !.prompted = ShowsPrompt(retry_counter)],
                     "undefined", NoTok))

\* successFunction(ctx, created)
OnboardSuccess(p, c, created) ==
    /\ chain' = [chain EXCEPT !.callbacks = Append(@, created), !.active = FALSE]
    /\ onboardTimer' = onboardTimer
    /\ Set(p, Return([c EXCEPT !.cb = created], "undefined", NoTok))

\* createAnonymousUser has returned jwt (NoTok for null) to its caller
AfterOmCreateAnonymousUser(p, c, jwt) ==
    IF c.op = "onboardPlugin" THEN
        IF jwt = NoTok THEN OnboardRetry(p, c) ELSE OnboardSuccess(p, c, "true")
    ELSE
        /\ Set(p, IF jwt = NoTok THEN Return(c, "null", NoTok)
                                 ELSE Return(c, "jwt", jwt))
        /\ UNCHANGED <<chain, onboardTimer>>

StartOmCreateAnonymousUser(p) ==
    /\ Idle(p)
    /\ \E online \in BOOLEAN :
        LET c == [NewCall("omCreateAnonymousUser") EXCEPT !.serverIsOnline = online] IN
        Set(p, IF online THEN [c EXCEPT !.pc = "apptoken"]
                         ELSE Return(c, "null", NoTok))
    /\ UNCHANGED <<dcVars, omVars, storeVars, envVars, timerVars, chain, onboardOk, hist>>

OmCreateAnonymousUserAppJwt(p) ==
    /\ call[p].op \in {"omCreateAnonymousUser", "onboardPlugin"}
    /\ call[p].pc = "apptoken"
    /\ \E r \in TokenResps :
        LET c0 == Recv(call[p], r)
            appJwt == getAppJwt(c0.serverIsOnline, r)
            c == [c0 EXCEPT !.appJwt = appJwt, !.jwt = jwtItem] IN
        IF r.cls = "throw" THEN
            /\ Set(p, Raise(c0))
            /\ UNCHANGED <<chain, onboardTimer>>
        ELSE IF appJwt # NoTok /\ c.serverIsOnline /\ NoStoredJwt(c.jwt) THEN
            /\ Set(p, [c EXCEPT !.pc = "onboard", !.posts = @ + 1])
            /\ UNCHANGED <<chain, onboardTimer>>
        ELSE
            AfterOmCreateAnonymousUser(p, c, NoTok)
    /\ UNCHANGED <<dcVars, omVars, storeVars, envVars, refetchTimer, onboardOk, hist>>

OmCreateAnonymousUserOnboard(p) ==
    /\ call[p].op \in {"omCreateAnonymousUser", "onboardPlugin"}
    /\ call[p].pc = "onboard"
    /\ \E r \in TokenResps :
        LET c == Recv(call[p], r) IN
        IF r.cls = "throw" THEN
            /\ Set(p, Raise(c))
            /\ UNCHANGED <<jwtItem, onboardOk, chain, onboardTimer, hist>>
        ELSE IF OnboardAccepted(r) THEN
            /\ jwtItem' = r.jwt
            /\ onboardOk' = onboardOk + 1
            /\ hist' = [hist EXCEPT !.prefsOwed = AfterIssue(@, r.jwt, jwtItem)]
            /\ AfterOmCreateAnonymousUser(p, [c EXCEPT !.created = TRUE], r.jwt)
        ELSE
            /\ AfterOmCreateAnonymousUser(p, c, NoTok)
            /\ UNCHANGED <<jwtItem, onboardOk, hist>>
    /\ UNCHANGED <<dcVars, omVars, nameItem, envVars, refetchTimer>>

\* one invocation of onboardPlugin, with the activation counter at sec:
\* an unfocused first window defers five seconds, otherwise probe the server
\* mutant: the activation counter is not looked at
DefersWhileUnfocused(isFocused, sec) == ~isFocused

Defers(isFocused, sec) == ~isFocused /\ sec = 0

OnboardPluginBody(p, sec, ch) ==
    LET c == NewCall("onboardPlugin") IN
    IF Defers(focused, sec) THEN
        /\ onboardTimer' = "focus"
        /\ chain' = [ch EXCEPT !.defers = @ + 1]
        /\ Set(p, Return(c, "undefined", NoTok))
    ELSE
        /\ onboardTimer' = "none"
        /\ chain' = ch
        /\ Set(p, [c EXCEPT !.pc = "ping"])

\* the extension activates: a new onboarding chain
StartOnboardPlugin(p) ==
    /\ Idle(p)
    /\ ~chain.active
    /\ onboardTimer = "none"
    /\ OnboardPluginBody(p, secondary_window_activate_counter,
                         [NoChain EXCEPT !.active = TRUE])
    /\ UNCHANGED <<dcVars, omVars, storeVars, envVars, refetchTimer, onboardOk, hist>>

\* the five-second defer timer fires: count it and invoke onboardPlugin again
OnboardFocusTimer(p) ==
    /\ Idle(p)
    /\ onboardTimer = "focus"
    /\ secondary_window_activate_counter' = secondary_window_activate_counter + 1
    /\ OnboardPluginBody(p, secondary_window_activate_counter', chain)
    /\ UNCHANGED <<dcVars, retry_counter, storeVars, envVars, refetchTimer, onboardOk, hist>>

\* a counter that is only ever compared with zero: past MaxRetry it is kept
\* at MaxRetry
Counted(n) == IF n < MaxRetry THEN n + 1 ELSE MaxRetry

\* the ten-minute retry timer fires: count it and invoke onboardPlugin again;
\* nothing limits the number of retries
OnboardRetryTimer(p) ==
    /\ Idle(p)
    /\ onboardTimer = "retry"
    /\ retry_counter' = Counted(retry_counter)
    /\ OnboardPluginBody(p, secondary_window_activate_counter,
                         [chain EXCEPT !.retries = Counted(@)])
    /\ UNCHANGED <<dcVars, secondary_window_activate_counter, storeVars, envVars,
                   refetchTimer, onboardOk, hist>>

\* mutant: the two tests are joined by "and"
NeedsOnboardingBoth(hasSession, hasJwt) == ~hasSession /\ ~hasJwt

\* the session check: no session file, or no token
NeedsOnboarding(hasSession, hasJwt) == ~hasSession \/ ~hasJwt

\* the probe answered: the session check (source line 37) and what follows
OnboardPluginPing(p) ==
    /\ At(p, "onboardPlugin", "ping")
    /\ \E r \in PlainResps :
        LET c == [Recv(call[p], r) EXCEPT
                    !.serverIsOnline = serverIsAvailable(r),
                    !.checked = TRUE,
                    !.hadSession = softwareSessionFileExists,
                    !.hadJwt = jwtExists] IN
        IF NeedsOnboarding(softwareSessionFileExists, jwtExists) THEN
            IF ~c.serverIsOnline THEN OnboardRetry(p, c)
            ELSE
                /\ Set(p, [c EXCEPT !.pc = "apptoken"])
                /\ UNCHANGED <<chain, onboardTimer>>
        ELSE OnboardSuccess(p, c, "false")
    /\ UNCHANGED <<dcVars, omVars, storeVars, envVars, refetchTimer, onboardOk, hist>>

\* the user moves the focus to or away from this editor window
FocusChange ==
    /\ focused' = ~focused
    /\ UNCHANGED <<dcVars, omVars, storeVars, config, dataStoreFile, sessionFile,
                   transportRejects, call, timerVars, chain, onboardOk, hist>>

\* -------------------------------------------------------------- preferences

\* mutant: only the music preference is tested for null
AnyUnsetMusicOnly(prefs) == prefs.showMusic = "unset"

\* a remote preference that is null or undefined reads as null
AnyUnset(prefs) ==
    prefs.showMusic = "unset" \/ prefs.showGit = "unset" \/ prefs.showRank = "unset"

\* mutant: the ranking setting is left out of the comparison
NeedsPushNoRank(prefs, showMusicMetrics, showGitMetrics, showWeeklyRanking) ==
    \/ AnyUnset(prefs)
    \/ prefs.showMusic # showMusicMetrics
    \/ prefs.showGit # showGitMetrics

\* updatePreferences: whether the remote preferences call for a push
NeedsPush(prefs, showMusicMetrics, showGitMetrics, showWeeklyRanking) ==
    \/ AnyUnset(prefs)
    \/ prefs.showMusic # showMusicMetrics
    \/ prefs.showGit # showGitMetrics
    \/ prefs.showRank # showWeeklyRanking

\* sendPreferencesUpdate: the configuration values overlaid on the preferences
PutPayload(cfg) ==
    [showMusic |-> cfg.showMusicMetrics, showGit |-> cfg.showGitMetrics,
     showRank |-> cfg.showWeeklyRanking]

\* sendPreferencesUpdate is entered: read the configuration, PUT it
EnterSendPreferencesUpdate(c) ==
    [c EXCEPT !.pc = "put", !.puts = Append(@, PutPayload(config))]

\* the PUT's response is only logged
SendPreferencesUpdateResp(p) ==
    /\ call[p].op \in {"initializePreferences", "updatePreferences"}
    /\ call[p].pc = "put"
    /\ \E r \in PlainResps :
        LET c == Recv(call[p], r) IN
        Set(p, IF r.cls = "throw" THEN Raise(c) ELSE Return(c, "undefined", NoTok))
    /\ UNCHANGED <<dcVars, omVars, storeVars, envVars, timerVars, chain, onboardOk, hist>>

StartInitializePreferences(p) ==
    /\ Idle(p)
    /\ Set(p, [NewCall("initializePreferences") EXCEPT !.pc = "ping", !.jwt = jwtItem])
    /\ UNCHANGED <<dcVars, omVars, storeVars, envVars, timerVars, chain, onboardOk, hist>>

\* both preference functions: with a token and the server online fetch the user
PreferencesPing(p) ==
    /\ call[p].op \in {"initializePreferences", "updatePreferences"}
    /\ call[p].pc = "ping"
    /\ \E r \in PlainResps :
        LET c == [Recv(call[p], r) EXCEPT !.serverIsOnline = serverIsAvailable(r)] IN
        Set(p, IF c.jwt # NoTok /\ c.serverIsOnline THEN [c EXCEPT !.pc = "me"]
               ELSE Return(c, "undefined", NoTok))
    /\ UNCHANGED <<dcVars, omVars, storeVars, envVars, timerVars, chain, onboardOk, hist>>

\* initializePreferences has the user: push when a remote field is unset,
\* otherwise pull, starting with showMusicMetrics
InitializePreferencesUser(p) ==
    /\ At(p, "initializePreferences", "me")
    /\ \E r \in UserResps :
        LET c == Recv(call[p], r) IN
        IF r.cls = "throw" THEN
            /\ Set(p, Raise(c))
            /\ UNCHANGED config
        ELSE IF getUser(r) /\ r.hasPrefs THEN
            LET c1 == [c EXCEPT !.fetched = TRUE, !.remote = r.prefs,
                                !.prefs = r.prefs] IN
            IF AnyUnset(r.prefs) THEN
                /\ Set(p, EnterSendPreferencesUpdate(c1))
                /\ UNCHANGED config
            ELSE
                /\ config' = [config EXCEPT !.showMusicMetrics = r.prefs.showMusic]
                /\ Set(p, [c1 EXCEPT !.pc = "showGit", !.wrote = TRUE])
        ELSE
            /\ Set(p, Return(c, "undefined", NoTok))
            /\ UNCHANGED config
    /\ UNCHANGED <<dcVars, omVars, storeVars, dataStoreFile, sessionFile, focused,
                   transportRejects, timerVars, chain, onboardOk, hist>>

\* the first update is done: update showGitMetrics
InitializePreferencesGit(p) ==
    /\ At(p, "initializePreferences", "showGit")
    /\ config' = [config EXCEPT !.showGitMetrics = call[p].prefs.showGit]
    /\ Set(p, [call[p] EXCEPT !.pc = "showRank"])
    /\ UNCHANGED <<dcVars, omVars, storeVars, dataStoreFile, sessionFile, focused,
                   transportRejects, timerVars, chain, onboardOk, hist>>

\* the second update is done: update showWeeklyRanking and finish
InitializePreferencesRank(p) ==
    /\ At(p, "initializePreferences", "showRank")
    /\ config' = [config EXCEPT !.showWeeklyRanking = call[p].prefs.showRank]
    /\ Set(p, Return(call[p], "undefined", NoTok))
    /\ UNCHANGED <<dcVars, omVars, storeVars, dataStoreFile, sessionFile, focused,
                   transportRejects, timerVars, chain, onboardOk, hist>>

StartUpdatePreferences(p) ==
    /\ Idle(p)
    /\ Set(p, [NewCall("updatePreferences") EXCEPT !.pc = "ping", !.jwt = jwtItem,
                                                   !.cfg = config])
    /\ UNCHANGED <<dcVars, omVars, storeVars, envVars, timerVars, chain, onboardOk, hist>>

\* updatePreferences has the user (or not): GET /users/:id
UpdatePreferencesUser(p) ==
    /\ At(p, "updatePreferences", "me")
    /\ \E r \in UserResps :
        LET c == Recv(call[p], r) IN
        Set(p, IF r.cls = "throw" THEN Raise(c)
               ELSE IF ~getUser(r) THEN Return(c, "undefined", NoTok)
               ELSE [c EXCEPT !.pc = "user"])
    /\ UNCHANGED <<dcVars, omVars, storeVars, envVars, timerVars, chain, onboardOk, hist>>

\* mutant: remote preferences that are all set are copied into the local
\* configuration, as initializePreferences does
UpdatePreferencesPrefsPull(p) ==
    /\ At(p, "updatePreferences", "user")
    /\ \E r \in UserResps :
        /\ Set(p, Return(Recv(call[p], r), "undefined", NoTok))
        /\ config' = IF isResponseOk(r) /\ r.data /\ r.hasPrefs /\ ~AnyUnset(r.prefs)
                     THEN [showMusicMetrics |-> r.prefs.showMusic,
                           showGitMetrics |-> r.prefs.showGit,
                           showWeeklyRanking |-> r.prefs.showRank]
                     ELSE config
    /\ UNCHANGED <<dcVars, omVars, storeVars, dataStoreFile, sessionFile, focused,
                   transportRejects, timerVars, chain, onboardOk, hist>>

\* updatePreferences has the server's preferences: push when they differ
UpdatePreferencesPrefs(p) ==
    /\ At(p, "updatePreferences", "user")
    /\ \E r \in UserResps :
        LET c == Recv(call[p], r) IN
        Set(p, IF r.cls = "throw" THEN Raise(c)
               ELSE IF isResponseOk(r) /\ r.data /\ r.hasPrefs THEN
                   LET c1 == [c EXCEPT !.fetched = TRUE, !.remote = r.prefs,
                                       !.prefs = r.prefs] IN
                   IF NeedsPush(r.prefs, c.cfg.showMusicMetrics,
                                c.cfg.showGitMetrics, c.cfg.showWeeklyRanking)
                   THEN EnterSendPreferencesUpdate(c1)
                   ELSE Return(c1, "undefined", NoTok)
               ELSE Return(c, "undefined", NoTok))
    /\ UNCHANGED <<dcVars, omVars, storeVars, envVars, timerVars, chain, onboardOk, hist>>

\* ------------------------------------------------------------ sendOfflineData

\* The batch file's text, symbol by symbol: LF is a line break (\n or \r\n);
\* A is the text {"a":1}, B the text {"b":2}, Z the text 0 (JSON, but a falsy
\* value) and X the text badjson.
Alphabet == {"LF", "A", "B", "Z", "X"}

\* content.split(/\r?\n/)
RECURSIVE Split(_)
Split(s) ==
    IF \A i \in 1..Len(s) : s[i] # "LF" THEN <<s>>
    ELSE LET i == CHOOSE k \in 1..Len(s) :
                      s[k] = "LF" /\ \A j \in 1..(k - 1) : s[j] # "LF" IN
         <<SubSeq(s, 1, i - 1)>> \o Split(SubSeq(s, i + 1, Len(s)))

\* JSON.parse(item) inside the try: the parsed value, or null when item is
\* empty or the parse throws
ParseItem(item) ==
    IF Len(item) = 0 THEN "null"
    ELSE IF Len(item) = 1 /\ item[1] = "A" THEN "{a:1}"
    ELSE IF Len(item) = 1 /\ item[1] = "B" THEN "{b:2}"
    ELSE IF Len(item) = 1 /\ item[1] = "Z" THEN "0"
    ELSE "null"

\* JavaScript truthiness of a parsed value
Truthy(v) == v \notin {"null", "undefined", "0"}

\* the map callback: the object, or undefined
MapItem(item) == IF Truthy(ParseItem(item)) THEN ParseItem(item) ELSE "undefined"

\* mutant: the trailing filter is missing
PayloadsUnfiltered(content) ==
    LET items == Split(content) IN
    [i \in 1..Len(items) |-> MapItem(items[i])]

\* .map(...).filter(item => item)
Payloads(content) ==
    LET items == Split(content)
        mapped == [i \in 1..Len(items) |-> MapItem(items[i])] IN
    SelectSeq(mapped, Truthy)

\* mutant: the deactivation test is negated
BatchAcceptedUnlessDeactivated(r) == isResponseOk(r) \/ ~isUserDeactivated(r)

\* the batch POST's response lets the probe run
BatchAccepted(r) == isResponseOk(r) \/ isUserDeactivated(r)

\* sendOfflineData: read the file and POST the batch; the function itself
\* returns at once
StartSendOfflineData(p) ==
    /\ Idle(p)
    /\ LET c == [NewCall("sendOfflineData") EXCEPT !.ret = "undefined"] IN
        Set(p, IF dataStoreFile # NoFile /\ dataStoreFile # <<>>
               THEN [c EXCEPT !.pc = "batch", !.payloads = Payloads(dataStoreFile),
                              !.jwt = jwtItem, !.posts = 1]
               ELSE Return(c, "undefined", NoTok))
    /\ UNCHANGED <<dcVars, omVars, storeVars, envVars, timerVars, chain, onboardOk, hist>>

\* the batch response: accepted batches go on to the reachability probe
SendOfflineDataBatch(p) ==
    /\ At(p, "sendOfflineData", "batch")
    /\ \E r \in BatchResps :
        LET c == [Recv(call[p], r) EXCEPT !.batch = r.cls] IN
        /\ Set(p, IF r.cls = "throw" THEN Raise(c)
                  ELSE IF BatchAccepted(r) THEN [c EXCEPT !.pc = "probe"]
                  ELSE Return(c, "undefined", NoTok))
        /\ hist' = IF r.cls # "throw" /\ BatchAccepted(r)
                   THEN [hist EXCEPT !.accepted =
                            @ \cup {c.payloads[i] : i \in 1..Len(c.payloads)}]
                   ELSE hist
    /\ UNCHANGED <<dcVars, omVars, storeVars, envVars, timerVars, chain, onboardOk>>

\* the probe's answer: delete the file when the server is available
SendOfflineDataProbe(p) ==
    /\ At(p, "sendOfflineData", "probe")
    /\ \E r \in PlainResps :
        LET c == Recv(call[p], r) IN
        IF serverIsAvailable(r) THEN
            /\ dataStoreFile' = NoFile
            /\ Set(p, Return([c EXCEPT !.probe = "true", !.deleted = TRUE],
                             "undefined", NoTok))
        ELSE
            /\ Set(p, Return([c EXCEPT !.probe = "false"], "undefined", NoTok))
            /\ UNCHANGED dataStoreFile
    /\ UNCHANGED <<dcVars, omVars, storeVars, config, sessionFile, focused,
                   transportRejects, timerVars, chain, onboardOk, hist>>

\* another part of the extension stores one more event record: a new line at
\* the end of the batch file, which is created when missing
AppendOfflineRecord ==
    /\ \E rec \in {"A", "B"} :
        dataStoreFile' = IF dataStoreFile = NoFile \/ dataStoreFile = <<>>
                         THEN <<rec>>
                         ELSE dataStoreFile \o <<"LF", rec>>
    /\ Len(dataStoreFile') <= MaxLen
    /\ UNCHANGED <<dcVars, omVars, storeVars, config, sessionFile, focused,
                   transportRejects, call, timerVars, chain, onboardOk, hist>>

\* ------------------------------------------------- refetchUserStatusLazily

\* userStatusFetchHandler: try again when not logged in and tries remain
Reschedules(loggedIn, tries) == ~loggedIn /\ tries > 0

\* mutant: the count is not decremented
NextTriesSame(tries) == tries

\* the count the next timer carries
NextTries(tries) == tries - 1

\* refetchUserStatusLazily(n): arm the ten-second timer
RefetchUserStatusLazily ==
    /\ ~chain.active
    /\ refetchTimer = -1
    /\ onboardTimer = "none"
    /\ \E n \in 0..DefaultTries :
        /\ refetchTimer' = n
        /\ chain' = [NoChain EXCEPT !.active = TRUE, !.tries = n]
    /\ UNCHANGED <<dcVars, omVars, storeVars, envVars, call, onboardTimer, onboardOk, hist>>

\* the timer fires: userStatusFetchHandler awaits getUserStatus
RefetchTimerFire(p) ==
    /\ Idle(p)
    /\ refetchTimer >= 0
    /\ chain.checks <= DefaultTries + 1
    /\ Set(p, [NewCall("getUserStatus") EXCEPT !.pc = "ping", !.jwt = jwtItem,
                                               !.tries = refetchTimer])
    /\ refetchTimer' = -1
    /\ chain' = [chain EXCEPT !.checks = @ + 1]
    /\ UNCHANGED <<dcVars, omVars, storeVars, envVars, onboardTimer, onboardOk, hist>>

\* getUserStatus has returned to userStatusFetchHandler
UserStatusFetchHandler(p) ==
    /\ At(p, "getUserStatus", "done")
    /\ call[p].tries >= 0
    /\ LET c == call[p]
           loggedIn == c.ret = "true" IN
        IF ~c.raised /\ Reschedules(loggedIn, c.tries) THEN
            /\ refetchTimer' = NextTries(c.tries)
            /\ UNCHANGED chain
        ELSE
            /\ refetchTimer' = -1
            /\ chain' = [chain EXCEPT !.active = FALSE,
                                      !.loggedIn = ~c.raised /\ loggedIn]
    /\ Set(p, IdleCall)
    /\ UNCHANGED <<dcVars, omVars, storeVars, envVars, onboardTimer, onboardOk, hist>>

\* the finished call's result is consumed by its caller
Collect(p) ==
    /\ call[p].pc = "done"
    /\ call[p].tries = -1
    /\ Set(p, IdleCall)
    /\ UNCHANGED <<dcVars, omVars, storeVars, envVars, timerVars, chain, onboardOk, hist>>

\* ------------------------------------------------------------ initial state

\* module load: the storage may hold a token persisted by an earlier session
InitCommon ==
    /\ loggedInCacheState = FALSE
    /\ initializedPrefs = FALSE
    /\ cachedJwt = NoTok
    /\ secondary_window_activate_counter = 0
    /\ retry_counter = 0
    /\ nameItem = "null"
    /\ call = [p \in Procs |-> IdleCall]
    /\ refetchTimer = -1
    /\ onboardTimer = "none"
    /\ chain = NoChain
    /\ onboardOk = 0
    /\ hist = NoHist

Init ==
    /\ InitCommon
    /\ jwtItem \in TokOrNone
    /\ config = DefaultConfig
    /\ dataStoreFile \in {NoFile, <<"A", "LF", "X">>}
    /\ sessionFile \in BOOLEAN
    /\ focused = TRUE
    /\ transportRejects = FALSE

\* non-interleaved calls: one call at a time, in the slot Main
Next ==
    \/ StartServerIsAvailable(Main)
    \/ ServerIsAvailableResp(Main)
    \/ StartGetAppJwt(Main)
    \/ GetAppJwtResp(Main)
    \/ StartGetUser(Main)
    \/ GetUserResp(Main)
    \/ StartSendMusicData(Main)
    \/ SendMusicDataResp(Main)
    \/ StartSendHeartbeat(Main)
    \/ SendHeartbeatPingResp(Main)
    \/ SendHeartbeatPostResp(Main)
    \/ StartCreateAnonymousUser(Main)
    \/ CreateAnonymousUserAppJwt(Main)
    \/ CreateAnonymousUserOnboard(Main)
    \/ StartGetUserStatus(Main)
    \/ GetUserStatusPing(Main)
    \/ IsLoggedOnResp(Main)
    \/ GetUserStatusLoggedOn(Main)
    \/ StartOmCreateAnonymousUser(Main)
    \/ OmCreateAnonymousUserAppJwt(Main)
    \/ OmCreateAnonymousUserOnboard(Main)
    \/ StartInitializePreferences(Main)
    \/ StartUpdatePreferences(Main)
    \/ PreferencesPing(Main)
    \/ InitializePreferencesUser(Main)
    \/ InitializePreferencesGit(Main)
    \/ InitializePreferencesRank(Main)
    \/ UpdatePreferencesUser(Main)
    \/ UpdatePreferencesPrefs(Main)
    \/ SendPreferencesUpdateResp(Main)
    \/ StartSendOfflineData(Main)
    \/ SendOfflineDataBatch(Main)
    \/ SendOfflineDataProbe(Main)
    \/ Collect(Main)

Spec == Init /\ [][Next]_vars

\* ---- the same calls over a transport that may reject a request instead
\* of returning a response

InitThrow ==
    /\ InitCommon
    /\ jwtItem \in TokOrNone
    /\ config = DefaultConfig
    /\ dataStoreFile \in {NoFile, <<"A", "LF", "X">>}
    /\ sessionFile \in BOOLEAN
    /\ focused = TRUE
    /\ transportRejects = TRUE

SpecThrow == InitThrow /\ [][Next]_vars

\* ---- the ten-second relogin chain; timers fire and responses arrive

InitRefetch ==
    /\ InitCommon
    /\ jwtItem \in TokOrNone
    /\ config = DefaultConfig
    /\ dataStoreFile = NoFile
    /\ sessionFile = TRUE
    /\ focused = TRUE
    /\ transportRejects = FALSE

GetUserStatusStep(p) ==
    \/ GetUserStatusPing(p)
    \/ CreateAnonymousUserAppJwt(p)
    \/ CreateAnonymousUserOnboard(p)
    \/ IsLoggedOnResp(p)
    \/ GetUserStatusLoggedOn(p)

NextRefetch ==
    \/ RefetchUserStatusLazily
    \/ RefetchTimerFire(Main)
    \/ GetUserStatusStep(Main)
    \/ UserStatusFetchHandler(Main)

SpecRefetch ==
    /\ InitRefetch
    /\ [][NextRefetch]_vars
    /\ WF_vars(RefetchTimerFire(Main))
    /\ WF_vars(GetUserStatusStep(Main))
    /\ WF_vars(UserStatusFetchHandler(Main))

\* ---- the onboarding chain, from every focus / session file / token state

InitOnboard ==
    /\ InitCommon
    /\ jwtItem \in TokOrNone
    /\ config = DefaultConfig
    /\ dataStoreFile = NoFile
    /\ sessionFile \in BOOLEAN
    /\ focused \in BOOLEAN
    /\ transportRejects = FALSE

NextOnboard ==
    \/ StartOnboardPlugin(Main)
    \/ OnboardFocusTimer(Main)
    \/ OnboardRetryTimer(Main)
    \/ OnboardPluginPing(Main)
    \/ OmCreateAnonymousUserAppJwt(Main)
    \/ OmCreateAnonymousUserOnboard(Main)
    \/ Collect(Main)
    \/ FocusChange

SpecOnboard == InitOnboard /\ [][NextOnboard]_vars

\* ---- the onboarding chain with a healthy server: the probe succeeds and the
\* app-token and onboarding requests are answered ok with a token; timers
\* fire and responses arrive

HealthyOnboardStep(p) ==
    /\ \/ OnboardPluginPing(p)
       \/ OmCreateAnonymousUserAppJwt(p)
       \/ OmCreateAnonymousUserOnboard(p)
    /\ call'[p].resp.cls = "ok"
    /\ call[p].pc \in {"apptoken", "onboard"} => call'[p].resp.jwt # NoTok

NextOnboardLive ==
    \/ StartOnboardPlugin(Main)
    \/ OnboardFocusTimer(Main)
    \/ OnboardRetryTimer(Main)
    \/ HealthyOnboardStep(Main)
    \/ Collect(Main)
    \/ FocusChange

SpecOnboardLive ==
    /\ InitOnboard
    /\ [][NextOnboardLive]_vars
    /\ WF_vars(OnboardFocusTimer(Main))
    /\ WF_vars(OnboardRetryTimer(Main))
    /\ WF_vars(HealthyOnboardStep(Main))
    /\ WF_vars(Collect(Main))

\* ---- preference sync alone, from every local configuration

InitPrefs ==
    /\ InitCommon
    /\ jwtItem \in {NoTok, 1}
    /\ config \in ConfigSet
    /\ dataStoreFile = NoFile
    /\ sessionFile = TRUE
    /\ focused = TRUE
    /\ transportRejects = FALSE

NextPrefs ==
    \/ StartInitializePreferences(Main)
    \/ StartUpdatePreferences(Main)
    \/ PreferencesPing(Main)
    \/ InitializePreferencesUser(Main)
    \/ InitializePreferencesGit(Main)
    \/ InitializePreferencesRank(Main)
    \/ UpdatePreferencesUser(Main)
    \/ UpdatePreferencesPrefs(Main)
    \/ SendPreferencesUpdateResp(Main)
    \/ Collect(Main)

SpecPrefs == InitPrefs /\ [][NextPrefs]_vars

\* ---- the offline batch alone, from every file content up to MaxLen symbols

RECURSIVE Texts(_)
Texts(n) ==
    IF n = 0 THEN {<<>>}
    ELSE Texts(n - 1) \cup
         {Append(t, a) : t \in {u \in Texts(n - 1) : Len(u) = n - 1}, a \in Alphabet}

InitOffline ==
    /\ InitCommon
    /\ jwtItem = 1
    /\ config = DefaultConfig
    /\ dataStoreFile \in {NoFile} \cup Texts(MaxLen)
    /\ sessionFile = TRUE
    /\ focused = TRUE
    /\ transportRejects = FALSE

NextOffline ==
    \/ StartSendOfflineData(Main)
    \/ SendOfflineDataBatch(Main)
    \/ SendOfflineDataProbe(Main)
    \/ Collect(Main)

SpecOffline == InitOffline /\ [][NextOffline]_vars

\* ---- the offline batch while records are appended and calls overlap

InitOfflineRace ==
    /\ InitCommon
    /\ jwtItem = 1
    /\ config = DefaultConfig
    /\ dataStoreFile \in {NoFile, <<"A">>, <<"A", "LF", "X">>}
    /\ sessionFile = TRUE
    /\ focused = TRUE
    /\ transportRejects = FALSE

NextOfflineRace ==
    \/ \E p \in Procs : StartSendOfflineData(p)
    \/ \E p \in Procs : SendOfflineDataBatch(p)
    \/ \E p \in Procs : SendOfflineDataProbe(p)
    \/ \E p \in Procs : Collect(p)
    \/ AppendOfflineRecord

SpecOfflineRace == InitOfflineRace /\ [][NextOfflineRace]_vars

\* ---- overlapping getUserStatus and createAnonymousUser calls: every call
\* may start while the others wait at an await; each slot runs one call.
\* The runs start at module load or after one completed login with the
\* stored token (the state a non-interleaved getUserStatus leaves).

AfterLogin ==
    /\ loggedInCacheState = TRUE
    /\ initializedPrefs = TRUE
    /\ cachedJwt = 1
    /\ jwtItem = 1
    /\ nameItem = "email"
    /\ hist = [NoHist EXCEPT !.prefsOwed = 0]
    /\ secondary_window_activate_counter = 0
    /\ retry_counter = 0
    /\ call = [p \in Procs |-> IdleCall]
    /\ refetchTimer = -1
    /\ onboardTimer = "none"
    /\ chain = NoChain
    /\ onboardOk = 0

InitRace ==
    /\ \/ InitCommon /\ jwtItem \in {NoTok, 1}
       \/ AfterLogin
    /\ config = DefaultConfig
    /\ dataStoreFile = NoFile
    /\ sessionFile = TRUE
    /\ focused = TRUE
    /\ transportRejects = FALSE

NextRace ==
    \/ \E p \in Procs : StartGetUserStatus(p)
    \/ \E p \in Procs : StartCreateAnonymousUser(p)
    \/ \E p \in Procs : GetUserStatusStep(p)

SpecRace == InitRace /\ [][NextRace]_vars

\* ================================================================== claims

\* ---- C1
\* C1: in non-interleaved calls of createAnonymousUser (both variants) and
\* getUserStatus, a call that issued a POST to /data/onboard started with no
\* token in local storage and none in cachedJwt; at most one onboarding POST
\* is ever answered with a token.
NoSecondOnboardPost ==
    /\ \A p \in Procs :
        (call[p].op \in {"createAnonymousUser", "omCreateAnonymousUser", "getUserStatus"}
            /\ call[p].posts > 0)
        => (call[p].startJwt = NoTok /\ call[p].startCached = NoTok)
    /\ onboardOk <= 1

\* a createAnonymousUser call that got its app token after an earlier
\* onboarding had succeeded, and ended without a POST
NoSecondOnboardPostWitness ==
    \E p \in Procs :
        /\ call[p].op \in {"createAnonymousUser", "omCreateAnonymousUser"}
        /\ call[p].pc = "done"
        /\ call[p].serverIsOnline
        /\ call[p].appJwt # NoTok
        /\ call[p].startJwt # NoTok
        /\ call[p].posts = 0
        /\ onboardOk = 1

\* ---- C2
\* C2: sendOfflineData leaves the batch file as it found it unless the
\* /data/batch POST was answered ok or user-deactivated and the /ping probe
\* issued after that answer succeeded; only then is the file deleted.
AcceptedThenProbed(c) ==
    /\ c.pc = "done"
    /\ c.batch \in {"ok", "deactivated"}
    /\ c.resp.cls = "ok"

OfflineFileDeletedOnlyAfterProbe ==
    \A p \in Procs :
        call[p].op = "sendOfflineData" =>
            /\ dataStoreFile # call[p].startFile => AcceptedThenProbed(call[p])
            /\ (call[p].posts = 1 /\ AcceptedThenProbed(call[p]))
                   => dataStoreFile = NoFile

\* a batch answered "deactivated", probed, and its file deleted
OfflineFileDeletedWitness ==
    \E p \in Procs :
        /\ call[p].op = "sendOfflineData"
        /\ call[p].pc = "done"
        /\ call[p].batch = "deactivated"
        /\ call[p].startFile # NoFile
        /\ dataStoreFile = NoFile

\* ---- C3
\* the lines of a text, read off the positions of its line breaks
LineBreaks(s) == {i \in 1..Len(s) : s[i] = "LF"}
NumLines(s) == Cardinality(LineBreaks(s)) + 1
NthBreak(s, k) ==
    IF k = 0 THEN 0
    ELSE IF k > Cardinality(LineBreaks(s)) THEN Len(s) + 1
    ELSE CHOOSE i \in LineBreaks(s) :
             Cardinality({j \in LineBreaks(s) : j < i}) = k - 1
LineOf(s, k) == SubSeq(s, NthBreak(s, k - 1) + 1, NthBreak(s, k) - 1)

\* the value a JSON text stands for
JsonValue(a) == IF a = "A" THEN "{a:1}" ELSE IF a = "B" THEN "{b:2}" ELSE "0"

\* the values of the lines that are one JSON text among atoms, in file order
RECURSIVE ValuesFrom(_, _, _)
ValuesFrom(s, k, atoms) ==
    IF k > NumLines(s) THEN <<>>
    ELSE (IF Len(LineOf(s, k)) = 1 /\ LineOf(s, k)[1] \in atoms
          THEN <<JsonValue(LineOf(s, k)[1])>> ELSE <<>>)
         \o ValuesFrom(s, k + 1, atoms)

\* C3 as stated: the payload POSTed to /data/batch is exactly the parsed
\* values of the valid (JSON) lines of the file, in file order.
OfflinePayloadAllValidLines ==
    \A p \in Procs :
        (call[p].op = "sendOfflineData" /\ call[p].posts = 1)
        => call[p].payloads = ValuesFrom(call[p].startFile, 1, {"A", "B", "Z"})

\* C3 amended: the payload POSTed to /data/batch is exactly the parsed values
\* of the lines that parse to a truthy JSON value, in file order; empty
\* lines, malformed lines and lines parsing to a falsy value are left out.
OfflinePayloadTruthyLines ==
    \A p \in Procs :
        (call[p].op = "sendOfflineData" /\ call[p].posts = 1)
        => call[p].payloads = ValuesFrom(call[p].startFile, 1, {"A", "B"})

\* a posted file holding a valid line, an empty line, a malformed line and
\* a second valid line
OfflinePayloadWitness ==
    \E p \in Procs :
        /\ call[p].op = "sendOfflineData"
        /\ call[p].posts = 1
        /\ call[p].startFile = <<"A", "LF", "LF", "X", "LF", "B">>
        /\ call[p].payloads = <<"{a:1}", "{b:2}">>

\* ---- C4
\* C4: when isLoggedOn gets an ok response with state OK whose token t is
\* non-null and differs from the token passed in, then on return storage
\* holds jwt = t, cachedJwt = t and initializedPrefs = false; when that
\* token equals the passed one or is absent, the stored jwt and
\* initializedPrefs are unchanged.
IsLoggedOnPersistsRotatedJwt ==
    [][\A p \in Procs :
        (call[p].pc = "state" /\ call'[p].pc = "stateReturned"
            /\ call'[p].resp.cls = "ok" /\ call'[p].resp.data
            /\ call'[p].resp.state = "OK")
        => LET t == call'[p].resp.jwt IN
           IF t # NoTok /\ t # call[p].tok
           THEN jwtItem' = t /\ cachedJwt' = t /\ initializedPrefs' = FALSE
           ELSE jwtItem' = jwtItem /\ initializedPrefs' = initializedPrefs]_vars

\* isLoggedOn has just returned after a rotated token reset the flag
IsLoggedOnRotatedWitness ==
    \E p \in Procs :
        /\ call[p].pc = "stateReturned"
        /\ call[p].resp.cls = "ok" /\ call[p].resp.state = "OK"
        /\ call[p].tok # NoTok
        /\ call[p].resp.jwt \notin {NoTok, call[p].tok}
        /\ jwtItem = call[p].resp.jwt
        /\ call[p].startPrefsInit
        /\ ~initializedPrefs
\* ---- C5
\* C5: a chain started by refetchUserStatusLazily(3) in which no check
\* reports loggedIn performs exactly 4 getUserStatus checks, one per fired
\* timer, and then arms no timer; once a check reports loggedIn no further
\* check is performed; every chain terminates.
RefetchChainOver == ~chain.active /\ chain.tries = DefaultTries /\ chain.checks > 0

RefetchStopsAfterFourChecks ==
    /\ [](chain.checks <= chain.tries + 1)
    /\ []((RefetchChainOver /\ ~chain.loggedIn) => chain.checks = DefaultTries + 1)
    /\ [](~chain.active =>
            (refetchTimer = -1 /\ \A p \in Procs : call[p].tries = -1))
    /\ [][chain.loggedIn => chain'.checks <= chain.checks]_vars
    /\ (chain.active ~> ~chain.active)

\* the default chain ended after its fourth check found nobody logged in
RefetchFourChecksWitness ==
    /\ RefetchChainOver
    /\ ~chain.loggedIn
    /\ chain.checks = 4
    /\ refetchTimer = -1

\* ---- C6
\* C6: initializePreferences, with a token stored, the server online and
\* the user fetched with preferences: if a remote field is unset it issues
\* exactly one PUT carrying the three local configuration values and does
\* not write the configuration; if all three are set it issues no PUT and
\* the three configuration values end equal to the remote ones.
RemoteUnset(c) ==
    "unset" \in {c.remote.showMusic, c.remote.showGit, c.remote.showRank}

InitializePreferencesPushOrPull ==
    \A p \in Procs :
        (call[p].op = "initializePreferences" /\ call[p].pc = "done"
            /\ call[p].fetched)
        => LET c == call[p] IN
           IF RemoteUnset(c)
           THEN /\ c.puts = <<[showMusic |-> c.startConfig.showMusicMetrics,
                               showGit |-> c.startConfig.showGitMetrics,
                               showRank |-> c.startConfig.showWeeklyRanking]>>
                /\ config = c.startConfig
           ELSE /\ c.puts = <<>>
                /\ config = [showMusicMetrics |-> c.remote.showMusic,
                             showGitMetrics |-> c.remote.showGit,
                             showWeeklyRanking |-> c.remote.showRank]

\* a finished pull that changed all three settings
InitializePreferencesPullWitness ==
    \E p \in Procs :
        /\ call[p].op = "initializePreferences" /\ call[p].pc = "done"
        /\ call[p].fetched /\ ~RemoteUnset(call[p])
        /\ call[p].startConfig.showMusicMetrics # config.showMusicMetrics
        /\ call[p].startConfig.showGitMetrics # config.showGitMetrics
        /\ call[p].startConfig.showWeeklyRanking # config.showWeeklyRanking

\* ---- C7
RemoteEqualsLocal(c) ==
    /\ c.remote.showMusic = c.startConfig.showMusicMetrics
    /\ c.remote.showGit = c.startConfig.showGitMetrics
    /\ c.remote.showRank = c.startConfig.showWeeklyRanking

PutsLocalValues(c) ==
    c.puts = <<[showMusic |-> config.showMusicMetrics,
                showGit |-> config.showGitMetrics,
                showRank |-> config.showWeeklyRanking]>>

UpdatePreferencesFetched(p) ==
    /\ call[p].op = "updatePreferences" /\ call[p].pc = "done"
    /\ call[p].fetched

\* C7 as stated: updatePreferences, for every combination of tri-state
\* remote preferences and local values, issues no PUT when the remote
\* preferences equal the local configuration in all three fields, and a PUT
\* carrying the local values when any field differs.
UpdatePreferencesPushIffDiffers ==
    \A p \in Procs :
        UpdatePreferencesFetched(p)
        => IF RemoteEqualsLocal(call[p]) THEN call[p].puts = <<>>
           ELSE PutsLocalValues(call[p])

\* C7 amended: updatePreferences, having fetched the user's preferences
\* with a stored token and the server online, issues no PUT when all three
\* remote fields are set and equal the local values, and one PUT carrying
\* the local values when a remote field is unset or any field differs.
UpdatePreferencesPushIffDiffersOrUnset ==
    \A p \in Procs :
        UpdatePreferencesFetched(p)
        => IF RemoteEqualsLocal(call[p]) /\ ~RemoteUnset(call[p])
           THEN call[p].puts = <<>>
           ELSE PutsLocalValues(call[p])

\* only the ranking differed, and the local values were PUT
UpdatePreferencesPushWitness ==
    \E p \in Procs :
        /\ UpdatePreferencesFetched(p)
        /\ ~RemoteUnset(call[p])
        /\ call[p].remote.showMusic = config.showMusicMetrics
        /\ call[p].remote.showGit = config.showGitMetrics
        /\ call[p].remote.showRank # config.showWeeklyRanking
        /\ Len(call[p].puts) = 1

\* ---- C8
BoolStr(b) == IF b THEN "true" ELSE "false"

\* C8: a getUserStatus call sends the STATE_CHANGE:LOGGED_IN heartbeat only
\* if the loggedIn it computed differs from loggedInCacheState as the
\* previous completed call left it; with no token anywhere, the server
\* online, the anonymous user created and the state check answering
\* ANONYMOUS it returns loggedIn = false and sends the heartbeat only if the
\* previous state was true.
HeartbeatOnlyOnStateChange ==
    \A p \in Procs :
        (call[p].op = "getUserStatus" /\ call[p].pc = "done" /\ ~call[p].raised)
        => LET c == call[p] IN
           /\ c.hb # "none" => (c.hb = c.ret /\ c.ret # BoolStr(c.startState))
           /\ (c.startJwt = NoTok /\ c.startCached = NoTok /\ c.serverIsOnline
                 /\ c.created /\ c.state = "ANONYMOUS")
              => (c.ret = "false" /\ (c.hb # "none" => c.startState))

\* the scenario, after a call that had left the state false: no heartbeat
HeartbeatScenarioWitness ==
    \E p \in Procs :
        /\ call[p].op = "getUserStatus" /\ call[p].pc = "done"
        /\ call[p].startJwt = NoTok /\ call[p].startCached = NoTok
        /\ call[p].created /\ call[p].state = "ANONYMOUS"
        /\ call[p].ret = "false"
        /\ ~call[p].startState
        /\ call[p].hb = "none"
        /\ onboardOk = 1

\* ---- C9
SafeDefault(op) ==
    CASE op = "serverIsAvailable" -> "false"
      [] op = "getAppJwt" -> "null"
      [] op = "getUser" -> "null"
      [] op = "sendMusicData" -> "fail"
      [] op = "getUserStatus" -> "false"
      [] op = "omCreateAnonymousUser" -> "null"
      [] OTHER -> "undefined"

NotOk(cls) == cls \in {"notok", "deactivated"}

Awaiting(c) ==
    c.pc \in {"ping", "apptoken", "onboard", "state", "me", "user", "put",
              "music", "heartbeat", "batch", "probe"}

\* C9: a call whose deciding (last) response was classified not-ok ends
\* normally with its safe default (serverIsAvailable false, getAppJwt null,
\* getUser null, sendMusicData fail, getUserStatus loggedIn false,
\* OnboardManager.createAnonymousUser null, the others nothing) and never
\* with a raised error; the step that takes a not-ok response writes no
\* token to storage.
NotOkGivesSafeDefault ==
    /\ [](\A p \in Procs :
            (call[p].pc = "done" /\ NotOk(call[p].resp.cls))
            => (~call[p].raised /\ call[p].ret = SafeDefault(call[p].op)))
    /\ [](\A p \in Procs :
            (call[p].pc # "idle" /\ ~call[p].sawOk) => jwtItem = call[p].startJwt)
    /\ [][\A p \in Procs :
            (Awaiting(call[p]) /\ call'[p] # call[p] /\ NotOk(call'[p].resp.cls))
            => jwtItem' = jwtItem]_vars

\* getUserStatus, online, ended {loggedIn: false} on a not-ok state response
NotOkSafeDefaultWitness ==
    \E p \in Procs :
        /\ call[p].op = "getUserStatus" /\ call[p].pc = "done"
        /\ call[p].serverIsOnline
        /\ call[p].resp.cls = "notok"
        /\ call[p].resp.jwt # NoTok
        /\ call[p].ret = "false"
\* ---- C10
\* C10: a started onboardPlugin chain invokes the success callback at most
\* once; an invocation calls it with created = false exactly when a session
\* file and a token both existed at its check, and with created = true
\* exactly when its createAnonymousUser call stored a newly issued token;
\* whenever the callback has been invoked a token is in local storage.
OnboardCallbackAtMostOnce ==
    /\ Len(chain.callbacks) <= 1
    /\ (chain.callbacks # <<>>) => (jwtItem # NoTok /\ onboardTimer = "none")
    /\ \A p \in Procs :
        (call[p].op = "onboardPlugin" /\ call[p].pc = "done")
        => LET c == call[p] IN
           /\ c.cb = "false" <=> (c.checked /\ sessionFile /\ c.startJwt # NoTok)
           /\ c.cb = "true" <=> (c.posts = 1 /\ c.resp.cls = "ok"
                                   /\ c.resp.jwt # NoTok /\ jwtItem = c.resp.jwt)
           /\ c.cb # "none" => chain.callbacks = <<c.cb>>

\* a chain that retried after a failed attempt and then created the user
OnboardCreatedAfterRetryWitness ==
    \E p \in Procs :
        /\ call[p].op = "onboardPlugin" /\ call[p].pc = "done"
        /\ call[p].cb = "true"
        /\ chain.retries >= 1
        /\ chain.callbacks = <<"true">>
        /\ jwtItem # NoTok

\* ---- C11
\* C11: every event record that sendOfflineData removes by deleting the batch
\* file was in the payload of a /data/batch POST answered ok or
\* user-deactivated, also when records are appended or a second
\* sendOfflineData call runs while the POST and the probe are in flight.
OfflineRemovedWereAccepted ==
    [][(dataStoreFile # NoFile /\ dataStoreFile' = NoFile)
        => \A i \in 1..Len(Payloads(dataStoreFile)) :
               Payloads(dataStoreFile)[i] \in hist.accepted]_vars

\* ---- C12
\* C12: at every await boundary of every interleaving of getUserStatus and
\* createAnonymousUser calls, a non-null cachedJwt is the token that local
\* storage holds.
CachedJwtIsStored == cachedJwt # NoTok => jwtItem = cachedJwt

\* ---- C13
\* C13: when getUserStatus or createAnonymousUser calls interleave, each
\* issues its /data/onboard POST only when its own guard found no token in
\* storage and none in memory, and each accepted onboarding response puts its
\* token into storage and memory over whatever is there; so two calls started
\* without a token can both POST, and the second response replaces the token
\* the first one stored (the witness).
OnboardRaceOverwrites ==
    /\ [][\A p \in Procs :
            call'[p].posts > call[p].posts
            => (jwtItem = NoTok /\ cachedJwt = NoTok)]_vars
    /\ [][onboardOk' > onboardOk
            => /\ jwtItem' \in Tokens
               /\ cachedJwt' = jwtItem'
               /\ \E p \in Procs :
                    /\ call[p].pc = "onboard"
                    /\ call'[p].created
                    /\ call'[p].resp.jwt = jwtItem']_vars
    /\ [](onboardOk <= Cardinality({p \in Procs : call[p].posts > 0}))

\* two getUserStatus calls that both started without a token, both POSTed
\* and both created a user: the token of the first is no longer stored
OnboardRaceWitness ==
    \E p, q \in Procs :
        /\ p # q
        /\ call[p].op = "getUserStatus" /\ call[q].op = "getUserStatus"
        /\ call[p].startJwt = NoTok /\ call[q].startJwt = NoTok
        /\ call[p].posts = 1 /\ call[q].posts = 1
        /\ call[p].created /\ call[q].created
        /\ call[p].pc = "state" /\ call[q].pc = "state"
        /\ call[p].tok # call[q].tok
        /\ jwtItem = call[q].tok
        /\ onboardOk = 2

\* ---- C16
\* C16: across getUserStatus calls, interleaved or not, initializePreferences
\* is started once for the first login and at most once more for every newly
\* issued token: no start is made that nothing owes.
PrefsStartedOncePerToken == hist.prefsOwed >= 0

\* ---- C14
\* an invocation of onboardPlugin that is waiting for a response
OnboardInFlight(p) ==
    call[p].op = "onboardPlugin" /\ call[p].pc \in {"ping", "apptoken", "onboard"}

\* C14: with timers firing fairly and a healthy server (the probe succeeds,
\* the app-token and onboarding requests return ok with a token), every
\* started onboardPlugin chain eventually invokes the success callback, from
\* every combination of focus, session file and stored token; until then the
\* chain has exactly one pending timer or one invocation in flight.
OnboardEventuallySucceeds ==
    /\ chain.active ~> (chain.callbacks # <<>>)
    /\ [](chain.active =>
            Cardinality({p \in Procs : OnboardInFlight(p)})
                + (IF onboardTimer # "none" THEN 1 ELSE 0) = 1)

\* ---- C15
\* the step in which getUserStatus call p runs its tail and returns
GetUserStatusReturns(p) ==
    /\ call[p].op = "getUserStatus"
    /\ call[p].pc \in {"ping", "stateReturned"}
    /\ call'[p].pc = "done"
    /\ ~call'[p].raised

\* C15 as stated: whenever the loggedIn value a getUserStatus call computes
\* differs from the one the previous call computed, the call sends the
\* heartbeat STATE_CHANGE:LOGGED_IN:<new value> and arms the one-second
\* session-info refresh.
HeartbeatOnEveryChange ==
    [][\A p \in Procs :
        (GetUserStatusReturns(p) /\ loggedInCacheState' # loggedInCacheState)
        => (call'[p].hb = BoolStr(loggedInCacheState') /\ call'[p].kpmTimer)]_vars

\* C15 amended: whenever the loggedIn value computed by a getUserStatus call
\* whose server probe succeeded differs from the one the previous call
\* computed, the call sends the heartbeat tagged with the new value and arms
\* the refresh, also from logged in to not logged in; a call whose probe
\* failed computes false and sends nothing, whatever the previous value was.
HeartbeatOnChangeWhenOnline ==
    [][\A p \in Procs :
        GetUserStatusReturns(p) =>
            LET changed == loggedInCacheState' # loggedInCacheState IN
            /\ (call'[p].serverIsOnline /\ changed)
                   => (call'[p].hb = BoolStr(loggedInCacheState')
                         /\ call'[p].kpmTimer)
            /\ ~call'[p].serverIsOnline
                   => (call'[p].hb = "none" /\ ~call'[p].kpmTimer
                         /\ ~loggedInCacheState')]_vars

\* an online call that found the user no longer logged in and reported it
HeartbeatLoggedOutWitness ==
    \E p \in Procs :
        /\ call[p].op = "getUserStatus" /\ call[p].pc = "done"
        /\ call[p].serverIsOnline
        /\ call[p].startState
        /\ call[p].ret = "false"
        /\ call[p].hb = "false"
        /\ call[p].kpmTimer
        /\ ~loggedInCacheState

\* ---- C17
\* C17: an onboardPlugin chain shows the offline prompt at most once, and
\* only in a failing attempt made while retry_counter is 0; every failing
\* attempt (server offline, or no user created) arms the ten-minute retry
\* timer, however many attempts have failed before.
OfflinePromptAtMostOnce ==
    /\ [](chain.prompts <= 1)
    /\ [][chain.prompts' > chain.prompts
            => (retry_counter = 0 /\ onboardTimer' = "retry")]_vars
    /\ [][\A p \in Procs :
            (OnboardInFlight(p) /\ call'[p].pc = "done"
                /\ call'[p].cb = "none" /\ ~call'[p].raised)
            => (onboardTimer' = "retry"
                  /\ call'[p].prompted = (retry_counter = 0))]_vars

\* a chain whose attempts failed offline and then at user creation: one
\* prompt, the retry armed again after the later failures
OfflinePromptOnceWitness ==
    \E p \in Procs :
        /\ call[p].op = "onboardPlugin" /\ call[p].pc = "done"
        /\ call[p].serverIsOnline
        /\ call[p].cb = "none"
        /\ ~call[p].prompted
        /\ chain.active
        /\ chain.prompts = 1
        /\ chain.retries = MaxRetry
        /\ retry_counter = MaxRetry
        /\ onboardTimer = "retry"

\* ---- C18
\* the step in which the five-second defer timer fires
FocusTimerFires ==
    secondary_window_activate_counter' # secondary_window_activate_counter

\* C18 as stated: while the window is unfocused, the defer timer's firing
\* arms the defer again and the chain does not go on to probe the server.
DeferRearmsWhileUnfocused ==
    [][(FocusTimerFires /\ ~focused)
        => (onboardTimer' = "focus" /\ \A p \in Procs : ~OnboardInFlight(p)')]_vars

\* C18 amended: an unfocused window defers onboarding by five seconds only
\* while secondary_window_activate_counter is 0; the timer's firing
\* increments the counter, so the chain then goes on to probe the server
\* whether or not the window is focused, and there is at most one deferral.
DefersAtMostOnce ==
    /\ [](chain.defers <= 1 /\ secondary_window_activate_counter <= 1)
    /\ [](onboardTimer = "focus" => secondary_window_activate_counter = 0)
    /\ [][FocusTimerFires
            => (onboardTimer' = "none"
                  /\ \E p \in Procs : call'[p].op = "onboardPlugin"
                                        /\ call'[p].pc = "ping")]_vars

\* the chain probing the server after its one deferral, still unfocused
DeferredOnceWitness ==
    \E p \in Procs :
        /\ call[p].op = "onboardPlugin" /\ call[p].pc = "ping"
        /\ ~focused
        /\ chain.defers = 1
        /\ secondary_window_activate_counter = 1
        /\ onboardTimer = "none"

\* ---- C19
\* C19: no step of an updatePreferences call (the sendPreferencesUpdate it
\* calls included) changes the local configuration, for every remote and
\* local preference combination and every response: after the call the
\* three settings are what they were; the configuration changes only in
\* steps of initializePreferences.
UpdatePreferencesKeepsConfig ==
    /\ [][\A p \in Procs :
            (call[p].op = "updatePreferences" /\ call'[p] # call[p])
            => config' = config]_vars
    /\ [](\A p \in Procs :
            call[p].op = "updatePreferences" => config = call[p].startConfig)
    /\ [][config' # config
            => \E p \in Procs : /\ call[p].op = "initializePreferences"
                                /\ call'[p] # call[p]]_vars

\* updatePreferences found remote preferences that are all set and differ
\* from the local ones: it pushed, and the configuration is as before
UpdatePreferencesKeepsConfigWitness ==
    \E p \in Procs :
        /\ call[p].op = "updatePreferences" /\ call[p].pc = "done"
        /\ call[p].fetched
        /\ ~AnyUnset(call[p].remote)
        /\ call[p].remote # PutPayload(config)
        /\ Len(call[p].puts) = 1
        /\ config = call[p].startConfig

\* ---- C20
\* the public operations the claim lists, by the name their calls carry
ListedOps ==
    {"serverIsAvailable", "getUserStatus", "createAnonymousUser",
     "initializePreferences", "updatePreferences", "sendHeartbeat",
     "sendMusicData", "sendOfflineData", "onboardPlugin"}

\* C20: when the transport rejects a request, the operation that made it
\* still completes with its boolean / null / fail outcome and never with a
\* propagated error, and the failed call changes neither the stored token
\* nor the offline file.
TransportFailureSwallowed ==
    /\ [](\A p \in Procs :
            (call[p].op \in ListedOps /\ call[p].pc = "done"
                /\ call[p].resp.cls = "throw")
            => (~call[p].raised /\ call[p].ret = SafeDefault(call[p].op)))
    /\ [][\A p \in Procs :
            (call[p].op \in ListedOps /\ Awaiting(call[p])
                /\ call'[p] # call[p] /\ call'[p].resp.cls = "throw")
            => (jwtItem' = jwtItem /\ dataStoreFile' = dataStoreFile)]_vars
====
